---- MODULE Spec2Model ----
(***************************************************************************)
(* DL1EventSource (ctapipe/io/dl1eventsource.py): the reader that turns a  *)
(* DL1 HDF5 file into a sequence of events.  The state is the opened file, *)
(* the reader's configuration, the run-header registry built at open, the  *)
(* forward cursors of one pass of _generate_events, the single event       *)
(* record `data` that is refilled for every event, what the caller of the *)
(* iteration has been given so far, the number of the pass, the state of   *)
(* the file handle, and the file handed to is_compatible with its answer.  *)
(***************************************************************************)
EXTENDS FiniteSets, Integers, Sequences, TLC

VARIABLES
    file,           \* the opened HDF5 file (self.file_), read-only
    allowed_tels,   \* self.allowed_tels: set of telescope ids, {} = no filter
    max_events,     \* self.max_events: 0 = no cap
    mc_headers,     \* self._mc_headers: obs_id -> header record
    pc,             \* "open", "streaming", "exhausted", "stopped", "failed"
    events_pos,     \* rows consumed from the array-trigger reader `events`
    counter,        \* the next index enumerate(events) hands out
    shower_pos,     \* rows consumed from mc_shower_reader
    image_pos,      \* table name -> rows consumed from image_iterators[name]
    param_pos,      \* table name -> rows consumed from param_readers[name]
    data,           \* the EventAndMonDataContainer refilled for every event
    delivered,      \* number of events the caller has received in this pass
    error,          \* the last exception that reached the caller, or "none"
    data_obj,       \* identity of the record `data` refers to, 0 before one
    yielded_objs,   \* identities of the records yielded in this pass
    pass,           \* number of the pass: calls of _generator() so far, plus 1
    isopen,         \* self.file_ is open
    releases,       \* times the file handle has been released
    closes,         \* calls of close() so far
    probe,          \* the file handed to is_compatible
    compatible      \* what is_compatible returned or raised, "unset" before

vars == <<file, allowed_tels, max_events, mc_headers, pc, events_pos, counter,
          shower_pos, image_pos, param_pos, data, delivered, error, data_obj,
          yielded_objs, pass, isopen, releases, closes, probe, compatible>>

(***************************************************************************)
(* Bounds of the model.                                                    *)
(***************************************************************************)
MaxRows == 4        \* rows of the array-trigger table
NTel == 2           \* telescopes of the subarray
MaxCloses == 2      \* calls of close() and __exit__ on one reader
MaxPasses == 2      \* passes over one reader

Tels == 1..NTel
None == -1          \* an unset integer field of a container

(***************************************************************************)
(* f"tel_{tel:03d}": the name of a telescope's table.                      *)
(***************************************************************************)
Digit(d) ==
    CASE d = 0 -> "0" [] d = 1 -> "1" [] d = 2 -> "2" [] d = 3 -> "3"
      [] d = 4 -> "4" [] d = 5 -> "5" [] d = 6 -> "6" [] d = 7 -> "7"
      [] d = 8 -> "8" [] d = 9 -> "9"

TelName(tel) ==
    "tel_" \o Digit((tel \div 100) % 10) \o Digit((tel \div 10) % 10)
           \o Digit(tel % 10)

(***************************************************************************)
(* The files the reader is opened on.  A file is a record of its tables:   *)
(*   trigger        /dl1/event/subarray/trigger, one row per array event   *)
(*   tel_trigger    /dl1/event/telescope/trigger, one row per telescope    *)
(*                  and event                                              *)
(*   images         /dl1/event/telescope/images/<name>, by table name      *)
(*   parameters     /dl1/event/telescope/parameters/<name>                 *)
(*   pointing       /dl1/monitoring/subarray/pointing                      *)
(*   tel_pointing   /dl1/monitoring/telescope/pointing/<name>              *)
(*   shower         /simulation/event/subarray/shower                      *)
(*   run            /configuration/simulation/run                          *)
(* A row of the array-trigger table is described by the telescopes set in  *)
(* its bitmap (bits) and the telescopes that have a row for the event in   *)
(* the per-telescope trigger table (rows): all telescopes in both; or      *)
(* telescope 1 with a row and no bit and the others with a bit and no row; *)
(* or no telescope at all.                                                 *)
(***************************************************************************)
RowKinds ==
    { [bits |-> Tels,       rows |-> Tels],
      [bits |-> Tels \ {1}, rows |-> {1}],
      [bits |-> {},         rows |-> {}] }

\* which per-telescope groups and tables the file holds
Layouts ==
    { [has_images |-> TRUE,  image_tels |-> Tels,
       has_parameters |-> FALSE, param_tels |-> {}],
      [has_images |-> FALSE, image_tels |-> {},
       has_parameters |-> TRUE,  param_tels |-> Tels],
      [has_images |-> TRUE,  image_tels |-> Tels,
       has_parameters |-> TRUE,  param_tels |-> Tels],
      [has_images |-> TRUE,  image_tels |-> Tels \ {NTel},
       has_parameters |-> TRUE,  param_tels |-> Tels],
      [has_images |-> TRUE,  image_tels |-> Tels,
       has_parameters |-> TRUE,  param_tels |-> Tels \ {NTel}] }

FullLayout ==
    [has_images |-> TRUE, image_tels |-> Tels,
     has_parameters |-> TRUE, param_tels |-> Tels]

\* observation id of trigger row r: one run, or two merged runs
ObsOf(merged, r) == IF merged THEN 1 + ((r \div 2) % 2) ELSE 1

TelsAscending(S) == SelectSeq([t \in 1..NTel |-> t], LAMBDA t : t \in S)

TelOfName(name) == CHOOSE t \in Tels : TelName(t) = name

TriggerRow(kinds, merged, times, r) ==
    [obs_id |-> ObsOf(merged, r), event_id |-> r, time |-> times[r],
     tels_with_trigger |-> [p \in 0..(NTel - 1) |-> (p + 1) \in kinds[r].bits]]

TelTriggerRow(merged, times, skew, r, t) ==
    [obs_id |-> ObsOf(merged, r), event_id |-> r, tel_id |-> t,
     telescopetrigger_time |-> times[r] + skew]

RECURSIVE TelTriggerRows(_, _, _, _, _)
\* the per-telescope trigger rows of trigger rows r..Len(kinds), in file order
TelTriggerRows(kinds, merged, times, skew, r) ==
    IF r > Len(kinds) THEN <<>>
    ELSE LET ts == TelsAscending(kinds[r].rows)
         IN  [i \in 1..Len(ts) |-> TelTriggerRow(merged, times, skew, r, ts[i])]
             \o TelTriggerRows(kinds, merged, times, skew, r + 1)

ImageRow(row) ==
    [obs_id |-> row.obs_id, event_id |-> row.event_id, tel_id |-> row.tel_id,
     image      |-> 1000 + 10 * row.event_id + row.tel_id,
     peak_time  |-> 2000 + 10 * row.event_id + row.tel_id,
     image_mask |-> 3000 + 10 * row.event_id + row.tel_id]

ParamRow(row) ==
    LET v == 10 * row.event_id + row.tel_id
    IN  [obs_id |-> row.obs_id, event_id |-> row.event_id, tel_id |-> row.tel_id,
         hillas |-> 4000 + v, timing |-> 5000 + v, leakage |-> 6000 + v,
         concentration |-> 7000 + v, morphology |-> 8000 + v,
         intensity |-> 9000 + v, peak_time |-> 10000 + v]

\* the rows of telescope t among the per-telescope trigger rows, in order
RowsOfTel(ttrig, t) == SelectSeq(ttrig, LAMBDA row : row.tel_id = t)

PointingRow(mon, i) ==
    [time |-> mon[i], array_azimuth |-> 100 + i, array_altitude |-> 200 + i,
     array_ra |-> 300 + i, array_dec |-> 400 + i]

TelPointingRow(mon, t, i) ==
    [telescopetrigger_time |-> mon[i],
     azimuth |-> 100 * t + 10 + i, altitude |-> 100 * t + 20 + i]

RunRow(obs) ==
    [obs_id |-> obs, corsika_version |-> 6990 + obs, num_showers |-> 100 * obs]

ShowerRow(trow) ==
    [obs_id |-> trow.obs_id, event_id |-> trow.event_id,
     true_energy |-> 500 + trow.event_id]

\* The file with the given trigger rows: one image and one parameter row per
\* per-telescope trigger row, one shower row per trigger row, one run row per
\* observation id, the same monitoring samples for the array and each telescope.
MakeFile(kinds, sim, layout, times, skew, mon) ==
    LET n     == Len(kinds)
        trig  == [r \in 1..n |-> TriggerRow(kinds, sim, times, r)]
        ttrig == TelTriggerRows(kinds, sim, times, skew, 1)
    IN  [ trigger     |-> trig,
          tel_trigger |-> ttrig,
          has_images  |-> layout.has_images,
          images      |-> [name \in {TelName(t) : t \in layout.image_tels} |->
                             LET rows == RowsOfTel(ttrig, TelOfName(name))
                             IN  [i \in 1..Len(rows) |-> ImageRow(rows[i])]],
          has_parameters |-> layout.has_parameters,
          parameters  |-> [name \in {TelName(t) : t \in layout.param_tels} |->
                             LET rows == RowsOfTel(ttrig, TelOfName(name))
                             IN  [i \in 1..Len(rows) |-> ParamRow(rows[i])]],
          pointing    |-> [i \in 1..Len(mon) |-> PointingRow(mon, i)],
          tel_pointing |-> [name \in {TelName(t) : t \in Tels} |->
                             [i \in 1..Len(mon) |->
                                 TelPointingRow(mon, TelOfName(name), i)]],
          simulation  |-> sim,
          shower      |-> IF sim THEN [r \in 1..n |-> ShowerRow(trig[r])]
                          ELSE <<>>,
          configuration_simulation |-> sim,
          has_run     |-> sim,
          run         |-> IF sim
                          THEN [i \in 1..Cardinality({trig[r].obs_id : r \in 1..n})
                                  |-> RunRow(i)]
                          ELSE <<>> ]

\* the first keep rows of a table
Truncate(table, keep) ==
    SubSeq(table, 1, IF Len(table) < keep THEN Len(table) ELSE keep)

\* Ways a file can fall short of its trigger table: a table cut down to its
\* first keep rows, a run table without its first row, a simulation file
\* without /configuration/simulation, or one with that group and no run table.
Defects ==
    [what : {"run", "shower", "images", "parameters"}, keep : {0, 1}]
    \cup {[what |-> "first_run", keep |-> 0],
          [what |-> "configuration", keep |-> 0],
          [what |-> "run_table", keep |-> 0]}

Damage(f, defect) ==
    CASE defect.what = "run" ->
           [f EXCEPT !.run = Truncate(@, defect.keep)]
      [] defect.what = "first_run" ->
           [f EXCEPT !.run = IF Len(@) = 0 THEN @ ELSE Tail(@)]
      [] defect.what = "configuration" ->
           [f EXCEPT !.configuration_simulation = FALSE, !.has_run = FALSE,
                     !.run = <<>>]
      \* /configuration/simulation without the table run
      [] defect.what = "run_table" ->
           [f EXCEPT !.has_run = FALSE, !.run = <<>>]
      [] defect.what = "shower" ->
           [f EXCEPT !.shower = Truncate(@, defect.keep)]
      [] defect.what = "images" ->
           [f EXCEPT !.images[TelName(1)] = Truncate(@, defect.keep)]
      [] defect.what = "parameters" ->
           [f EXCEPT !.parameters[TelName(1)] = Truncate(@, defect.keep)]

(***************************************************************************)
(* Containers.  Map(...) is a dictionary that creates a default entry when *)
(* a missing key is indexed; it is modelled as a function whose domain is  *)
(* the set of keys.                                                        *)
(***************************************************************************)
EmptyMap == [k \in {} |-> None]

Put(map, k, v) == [x \in (DOMAIN map) \cup {k} |-> IF x = k THEN v ELSE map[x]]

\* DL1CameraContainer(): the entry data.dl1.tel[tel] creates
NewDL1 ==
    [image |-> None, peak_time |-> None, image_mask |-> None,
     parameters |-> [hillas |-> None, timing |-> None, leakage |-> None,
                     concentration |-> None, morphology |-> None,
                     intensity_statistics |-> None,
                     peak_time_statistics |-> None]]

\* EventAndMonDataContainer()
NewData ==
    [count    |-> 0,
     trigger  |-> [time |-> None, tels_with_trigger |-> {}, tel |-> EmptyMap],
     index    |-> [obs_id |-> None, event_id |-> None],
     pointing |-> [array_azimuth |-> None, array_altitude |-> None,
                   array_ra |-> None, array_dec |-> None, tel |-> EmptyMap],
     dl1      |-> [tel |-> EmptyMap],
     mc       |-> [true_energy |-> None],
     mcheader |-> [corsika_version |-> None, num_showers |-> None]]

(***************************************************************************)
(* HDF5TableReader.read: the record a table row is decoded into.           *)
(***************************************************************************)
\* [TriggerContainer(), EventIndexContainer()] of an array-trigger row
ReadTrigger(row) ==
    <<[time |-> row.time, tels_with_trigger |-> row.tels_with_trigger,
       tel |-> EmptyMap],
      [obs_id |-> row.obs_id, event_id |-> row.event_id]>>

\* MCHeaderContainer() of a run-configuration row
ReadHeader(row) ==
    [corsika_version |-> row.corsika_version, num_showers |-> row.num_showers]

\* MCEventContainer() of a true-shower row
ReadShower(row) == [true_energy |-> row.true_energy]

\* the seven parameter containers of a parameter row, as a 0-based list
ReadParams(row) ==
    [k \in 0..6 |->
        CASE k = 0 -> row.hillas [] k = 1 -> row.timing [] k = 2 -> row.leakage
          [] k = 3 -> row.concentration [] k = 4 -> row.morphology
          [] k = 5 -> row.intensity [] k = 6 -> row.peak_time]

(***************************************************************************)
(* Properties of the open reader.                                          *)
(***************************************************************************)
\* b"\x89HDF\r\n\x1a\n"
HDF5Signature == <<137, 72, 68, 70, 13, 10, 26, 10>>

\* is_compatible(file_path): "True", "False", or the exception it raises.
\* p.magic is what f.read(8) returns, p.attrs the attributes of the root node.
is_compatible(p) ==
    LET metadata == p.attrs
    IN  IF p.magic # HDF5Signature THEN "False"
        ELSE IF "CTA PRODUCT DESCRIPTION" \notin DOMAIN metadata THEN "False"
        ELSE IF metadata["CTA PRODUCT DESCRIPTION"] # "DL1 Data Product"
        THEN "False"
        \* metadata[...] of an attribute the node does not have
        ELSE IF "CTA PRODUCT DATA MODEL VERSION" \notin DOMAIN metadata
        THEN "KeyError"
        ELSE IF metadata["CTA PRODUCT DATA MODEL VERSION"] # "v1.0.0"
        THEN "False"
        ELSE "True"

is_simulation(f) == f.simulation

datalevels(f) ==
    (IF f.has_images THEN {"DL1_IMAGES"} ELSE {})
    \cup (IF f.has_parameters THEN {"DL1_PARAMETERS"} ELSE {})

\* __len__
Length(f) == Len(f.trigger)

RECURSIVE ParseRows(_, _, _)
\* the registry after rows i..Len(run) have been inserted into headers
ParseRows(run, i, headers) ==
    IF i > Len(run) THEN headers
    ELSE ParseRows(run, i + 1, Put(headers, run[i].obs_id, ReadHeader(run[i])))

\* _parse_mc_headers
ParseMcHeaders(f) ==
    IF f.configuration_simulation THEN ParseRows(f.run, 1, EmptyMap) ELSE EmptyMap

\* The exception that leaves __init__, "none" without one: _parse_mc_headers
\* tests that the group /configuration/simulation is there and then takes its
\* table run, which raises when the group has no such table.
OpenError(f) ==
    IF f.configuration_simulation /\ ~f.has_run THEN "NoSuchNodeError"
    ELSE "none"

(***************************************************************************)
(* The steps of one iteration of the loop of _generate_events.             *)
(***************************************************************************)
\* np.where(bitmap)[0]: the 0-based positions that are set
DecodeTelsZeroBased(bitmap) == {q \in DOMAIN bitmap : bitmap[q]}

\* np.where(bitmap)[0] + 1: the 0-based positions that are set, plus one
DecodeTels(bitmap) == {p + 1 : p \in {q \in DOMAIN bitmap : bitmap[q]}}

\* the query with the event_id condition left out
TriggerWhereAnyEvent(f, index) ==
    SelectSeq(f.tel_trigger, LAMBDA row : row.obs_id = index.obs_id)

\* telescope.trigger.where("(obs_id==..) & (event_id==..)"), in table order
TriggerWhere(f, index) ==
    SelectSeq(f.tel_trigger,
              LAMBDA row : row.obs_id = index.obs_id
                           /\ row.event_id = index.event_id)

\* the allow-list test with the filter left out
ExcludedNever(allowed, tel) == FALSE

\* the allow-list test of the per-telescope loops
Excluded(allowed, tel) == allowed # {} /\ tel \notin allowed

RECURSIVE FillTelTrigger(_, _, _, _)
\* data.trigger.tel after rows i..Len(rows) of the query were looked at
FillTelTrigger(rows, i, allowed, tel) ==
    IF i > Len(rows) THEN tel
    ELSE IF Excluded(allowed, rows[i].tel_id)
         THEN FillTelTrigger(rows, i + 1, allowed, tel)
         ELSE FillTelTrigger(rows, i + 1, allowed,
                  Put(tel, rows[i].tel_id,
                      [time |-> rows[i].telescopetrigger_time]))

Range(s) == {s[i] : i \in DOMAIN s}

RECURSIVE KeysInOrder(_, _, _, _)
\* data.trigger.tel.keys(): the keys in the order they were first inserted
KeysInOrder(rows, i, allowed, keys) ==
    IF i > Len(rows) THEN keys
    ELSE IF Excluded(allowed, rows[i].tel_id) \/ rows[i].tel_id \in Range(keys)
         THEN KeysInOrder(rows, i + 1, allowed, keys)
         ELSE KeysInOrder(rows, i + 1, allowed, Append(keys, rows[i].tel_id))

\* np.argmin: the 0-based position of the first smallest element
ArgMin(xs) ==
    CHOOSE i \in 0..(Len(xs) - 1) :
        /\ \A j \in 0..(Len(xs) - 1) : xs[i + 1] <= xs[j + 1]
        /\ \A j \in 0..(i - 1) : xs[j + 1] > xs[i + 1]

\* the row _fill_array_pointing selects
ClosestArrayRow(f, time) ==
    LET closest_time == ArgMin([i \in 1..Len(f.pointing) |->
                                   f.pointing[i].time - time])
    IN  f.pointing[closest_time + 1]

\* _fill_array_pointing
FillArrayPointing(f, d) ==
    LET array_pointing == ClosestArrayRow(f, d.trigger.time)
    IN  [d EXCEPT !.pointing.array_azimuth  = array_pointing.array_azimuth,
                  !.pointing.array_altitude = array_pointing.array_altitude,
                  !.pointing.array_ra       = array_pointing.array_ra,
                  !.pointing.array_dec      = array_pointing.array_dec]

\* the row _fill_telescope_pointing selects in a telescope's table
ClosestTelRow(table, time) ==
    LET closest_time == ArgMin([i \in 1..Len(table) |->
                                   table[i].telescopetrigger_time - time])
    IN  table[closest_time + 1]

RECURSIVE FillTelPointing(_, _, _, _, _)
\* _fill_telescope_pointing over keys[i..]: [ok, d]; ok is FALSE when a
\* telescope has no pointing table or an empty one (the lookup raises)
FillTelPointing(f, allowed, keys, i, d) ==
    IF i > Len(keys) THEN [ok |-> TRUE, d |-> d]
    ELSE LET tel == keys[i]
         IN  IF Excluded(allowed, tel)
             THEN FillTelPointing(f, allowed, keys, i + 1, d)
             ELSE IF \/ TelName(tel) \notin DOMAIN f.tel_pointing
                     \/ Len(f.tel_pointing[TelName(tel)]) = 0
             THEN [ok |-> FALSE, d |-> d]
             ELSE LET pointing_array ==
                          ClosestTelRow(f.tel_pointing[TelName(tel)],
                                        d.trigger.tel[tel].time)
                      entry == [azimuth  |-> pointing_array.azimuth,
                                altitude |-> pointing_array.altitude]
                  IN  FillTelPointing(f, allowed, keys, i + 1,
                          [d EXCEPT !.pointing.tel = Put(@, tel, entry)])

RECURSIVE FillDL1(_, _, _, _, _)
\* The per-telescope loop over keys[i..] that fills data.dl1.tel.
\* acc = [ok, tel, image_pos, param_pos]: ok is FALSE when next() raised on an
\* exhausted cursor, tel is data.dl1.tel, the rest are the cursors.
FillDL1(f, allowed, keys, i, acc) ==
    IF i > Len(keys) \/ ~acc.ok THEN acc
    ELSE
    LET tel  == keys[i]
        name == TelName(tel)
        \* dl1 = data.dl1.tel[tel]: the entry exists from here on
        created == IF tel \in DOMAIN acc.tel THEN acc.tel
                   ELSE Put(acc.tel, tel, NewDL1)
        has_img == "DL1_IMAGES" \in datalevels(f)
        has_par == "DL1_PARAMETERS" \in datalevels(f)
        img_missing == has_img /\ name \notin DOMAIN acc.image_pos
        img_done    == has_img /\ ~img_missing
                       /\ acc.image_pos[name] >= Len(f.images[name])
        image_row   == f.images[name][acc.image_pos[name] + 1]
        with_image  == IF has_img
                       THEN [created EXCEPT
                               ![tel].image      = image_row.image,
                               ![tel].peak_time  = image_row.peak_time,
                               ![tel].image_mask = image_row.image_mask]
                       ELSE created
        image_pos2  == IF has_img
                       THEN [acc.image_pos EXCEPT ![name] = @ + 1]
                       ELSE acc.image_pos
        par_missing == has_par /\ name \notin DOMAIN acc.param_pos
        par_done    == has_par /\ ~par_missing
                       /\ acc.param_pos[name] >= Len(f.parameters[name])
        params      == ReadParams(f.parameters[name][acc.param_pos[name] + 1])
        with_params == IF has_par
                       THEN [with_image EXCEPT
                               ![tel].parameters.hillas               = params[0],
                               ![tel].parameters.timing               = params[1],
                               ![tel].parameters.leakage              = params[2],
                               ![tel].parameters.concentration        = params[3],
                               ![tel].parameters.morphology           = params[4],
                               ![tel].parameters.intensity_statistics = params[5],
                               ![tel].parameters.peak_time_statistics = params[6]]
                       ELSE with_image
        param_pos2  == IF has_par
                       THEN [acc.param_pos EXCEPT ![name] = @ + 1]
                       ELSE acc.param_pos
    IN  IF Excluded(allowed, tel)
        THEN FillDL1(f, allowed, keys, i + 1, acc)
        ELSE IF img_missing
        THEN FillDL1(f, allowed, keys, i + 1, [acc EXCEPT !.tel = created])
        ELSE IF img_done
        THEN [acc EXCEPT !.ok = FALSE, !.tel = created]
        ELSE IF par_missing
        THEN FillDL1(f, allowed, keys, i + 1,
                     [acc EXCEPT !.tel = with_image, !.image_pos = image_pos2])
        ELSE IF par_done
        THEN [acc EXCEPT !.ok = FALSE, !.tel = with_image,
                         !.image_pos = image_pos2]
        ELSE FillDL1(f, allowed, keys, i + 1,
                     [acc EXCEPT !.tel = with_params, !.image_pos = image_pos2,
                                 !.param_pos = param_pos2])

(***************************************************************************)
(* One pass of _generate_events.  The cursors of a pass are the record     *)
(* [events_pos, counter, shower_pos, image_pos, param_pos].                *)
(***************************************************************************)
\* the iterators and readers created before the loop (the iterators over the
\* true images and parameters are created too and never read)
NewCursors(f) ==
    [events_pos |-> 0,
     counter    |-> 0,
     shower_pos |-> 0,
     image_pos  |-> IF "DL1_IMAGES" \in datalevels(f)
                    THEN [name \in DOMAIN f.images |-> 0] ELSE EmptyMap,
     param_pos  |-> IF "DL1_PARAMETERS" \in datalevels(f)
                    THEN [name \in DOMAIN f.parameters |-> 0] ELSE EmptyMap]

\* the header of the first observation, whatever the event's obs_id
McHeaderOfFirst(headers, index) ==
    headers[CHOOSE k \in DOMAIN headers : \A j \in DOMAIN headers : k <= j]

\* data.mcheader = self._mc_headers[data.index.obs_id]
McHeaderOf(headers, index) == headers[index.obs_id]

\* an exception raised in the generator body and not caught there, as it
\* would leave a generator that lets StopIteration through: the iteration ends
RaiseLegacy(exc, d, c) ==
    IF exc = "StopIteration"
    THEN [status |-> "stop", error |-> "none", d |-> d, c |-> c]
    ELSE [status |-> "error", error |-> exc, d |-> d, c |-> c]

\* an exception raised in the generator body and not caught there reaches the
\* caller; a StopIteration (next() on an exhausted reader) reaches it as
\* RuntimeError (PEP 479)
Raise(exc, d, c) ==
    [status |-> "error",
     error  |-> IF exc = "StopIteration" THEN "RuntimeError" ELSE exc,
     d |-> d, c |-> c]

\* an iteration that clears nothing
ClearNothing(d) == d

\* data.dl1.tel.clear(), data.pointing.tel.clear(), data.trigger.tel.clear()
\* at the head of the loop body (data.mc.tel is not part of the model)
ClearMaps(d) ==
    [d EXCEPT !.dl1.tel = EmptyMap, !.pointing.tel = EmptyMap,
              !.trigger.tel = EmptyMap]

\* a lookup in the registry that raises nothing
HeaderMissingIgnored(headers, index) == FALSE

\* self._mc_headers[data.index.obs_id] raises KeyError
HeaderMissing(headers, index) == index.obs_id \notin DOMAIN headers

\* One request for the next event of the generator, from cursors c and event
\* record d: [status, error, d, c] with status "stop" (the loop ended),
\* "error" (an exception left the generator) or "yield".
LoopBody(f, allowed, headers, c, d) ==
    IF c.events_pos >= Len(f.trigger)
    THEN [status |-> "stop", error |-> "none", d |-> d, c |-> c]
    ELSE
    LET \* enumerate(events) takes a row and hands out the counter
        c1 == [c EXCEPT !.events_pos = @ + 1, !.counter = @ + 1]
        d1 == [ClearMaps(d) EXCEPT !.count = c.counter]
    IN
    IF c1.events_pos >= Len(f.trigger)
    THEN \* next(events) raises StopIteration inside the generator
         Raise("StopIteration", d1, c1)
    ELSE
    LET rec  == ReadTrigger(f.trigger[c1.events_pos + 1])
        c2   == [c1 EXCEPT !.events_pos = @ + 1]
        d2   == [d1 EXCEPT
                   !.trigger = [rec[1] EXCEPT !.tels_with_trigger =
                                   DecodeTels(rec[1].tels_with_trigger)],
                   !.index = rec[2]]
        rows == TriggerWhere(f, d2.index)
        keys == KeysInOrder(rows, 1, allowed, <<>>)
        d3   == [d2 EXCEPT !.trigger.tel =
                               FillTelTrigger(rows, 1, allowed, @)]
    IN
    IF Len(f.pointing) = 0
    THEN Raise("ValueError", d3, c2)
    ELSE
    LET d4 == FillArrayPointing(f, d3)
        tp == FillTelPointing(f, allowed, keys, 1, d4)
    IN
    IF ~tp.ok
    THEN Raise("ValueError", tp.d, c2)
    ELSE
    IF is_simulation(f) /\ c2.shower_pos >= Len(f.shower)
    THEN Raise("StopIteration", tp.d, c2)
    ELSE
    LET c3 == IF is_simulation(f) THEN [c2 EXCEPT !.shower_pos = @ + 1] ELSE c2
        d5 == IF is_simulation(f)
              THEN [tp.d EXCEPT !.mc = ReadShower(f.shower[c2.shower_pos + 1])]
              ELSE tp.d
    IN
    IF is_simulation(f) /\ HeaderMissing(headers, d5.index)
    THEN Raise("KeyError", d5, c3)
    ELSE
    LET d6  == IF is_simulation(f) /\ d5.index.obs_id \in DOMAIN headers
               THEN [d5 EXCEPT !.mcheader = McHeaderOf(headers, d5.index)]
               ELSE d5
        acc == FillDL1(f, allowed, keys, 1,
                       [ok |-> TRUE, tel |-> d6.dl1.tel,
                        image_pos |-> c3.image_pos, param_pos |-> c3.param_pos])
        d7  == [d6 EXCEPT !.dl1.tel = acc.tel]
        c4  == [c3 EXCEPT !.image_pos = acc.image_pos,
                          !.param_pos = acc.param_pos]
    IN  IF acc.ok
        THEN [status |-> "yield", error |-> "none", d |-> d7, c |-> c4]
        ELSE Raise("StopIteration", d7, c4)

(***************************************************************************)
(* The reader as a state machine.                                          *)
(***************************************************************************)
AllowLists == {{}, {1}}         \* allowed_tels: no filter, or telescope 1 only
Caps == {0, 1}                  \* max_events: no cap, or one event
TrigTimes == {5, 15, 21, 35}    \* trigger times around the monitoring samples
MonTables == {<<10, 20, 30>>, <<20>>, <<10, 10, 40>>}
Skews == {0, 4}                 \* telescope trigger time minus array time

\* is_compatible has not been called
NoProbe == [magic |-> <<>>, attrs |-> [k \in {} |-> ""]]

\* the first bytes of a file: the HDF5 signature, the signature with another
\* last byte, a file of four bytes, an empty file, a ZIP archive
Magics ==
    { HDF5Signature,
      <<137, 72, 68, 70, 13, 10, 26, 13>>,
      <<137, 72, 68, 70>>,
      <<>>,
      <<80, 75, 3, 4, 20, 0, 0, 0>> }

Descriptions == {"DL1 Data Product", "DL2 Data Product", ""}
Versions == {"v1.0.0", "v1.1.0", "v0.9"}

\* the root attributes with the given keys, a key being absent when "absent"
Attrs(description, version) ==
    [k \in (IF description = "absent" THEN {}
            ELSE {"CTA PRODUCT DESCRIPTION"})
           \cup (IF version = "absent" THEN {}
                 ELSE {"CTA PRODUCT DATA MODEL VERSION"})
       |-> IF k = "CTA PRODUCT DESCRIPTION" THEN description ELSE version]

Probes ==
    { [magic |-> m, attrs |-> Attrs(d, v)] :
        m \in Magics, d \in Descriptions \cup {"absent"},
        v \in Versions \cup {"absent"} }

ReaderOpened(f, allowed, cap) ==
    /\ isopen = TRUE
    /\ releases = 0
    /\ closes = 0
    /\ pass = 1
    /\ data_obj = 0
    /\ yielded_objs = {}
    /\ file = f
    /\ allowed_tels = allowed
    /\ max_events = cap
    /\ mc_headers = ParseMcHeaders(f)
    /\ pc = IF OpenError(f) = "none" THEN "open" ELSE "failed"
    /\ events_pos = 0
    /\ counter = 0
    /\ shower_pos = 0
    /\ image_pos = EmptyMap
    /\ param_pos = EmptyMap
    /\ data = NewData
    /\ delivered = 0
    /\ error = OpenError(f)

Opened(f, allowed, cap) ==
    /\ probe = NoProbe
    /\ compatible = "unset"
    /\ ReaderOpened(f, allowed, cap)

\* the reader opened on a file of any table layout
InitLayouts ==
    \E n \in 0..MaxRows :
      \E kinds \in [1..n -> RowKinds], sim \in BOOLEAN, layout \in Layouts,
         allowed \in AllowLists, cap \in Caps :
        Opened(MakeFile(kinds, sim, layout, [r \in 1..n |-> 10 * r], 1,
                        <<10, 20, 30>>),
               allowed, cap)

\* the reader opened on a simulation file with a defect
InitDamaged ==
    \E n \in 0..MaxRows :
      \E kinds \in [1..n -> RowKinds], defect \in Defects :
        Opened(Damage(MakeFile(kinds, TRUE, FullLayout, [r \in 1..n |-> 10 * r],
                               1, <<10, 20, 30>>),
                      defect),
               {}, 0)

Init == InitLayouts \/ InitDamaged

\* the reader opened on a file of any trigger times and monitoring samples
InitPointing ==
    \E n \in 0..MaxRows :
      \E times \in [1..n -> TrigTimes], mon \in MonTables, skew \in Skews,
         cap \in Caps :
        Opened(MakeFile([r \in 1..n |-> [bits |-> Tels, rows |-> Tels]],
                        FALSE, FullLayout, times, skew, mon),
               {}, cap)

\* is_compatible is about to be called on any file, beside a reader opened on
\* an empty file
InitCompatible ==
    \E p \in Probes :
        /\ probe = p
        /\ compatible = "unset"
        /\ ReaderOpened(MakeFile(<<>>, FALSE, FullLayout, <<>>, 0, <<10>>),
                        {}, 0)

Active == pc \in {"open", "streaming"}

\* the generator body runs from its first line on the first request
Cursors ==
    IF pc = "open" THEN NewCursors(file)
    ELSE [events_pos |-> events_pos, counter |-> counter,
          shower_pos |-> shower_pos, image_pos |-> image_pos,
          param_pos |-> param_pos]

Result ==
    LoopBody(file, allowed_tels, mc_headers, Cursors,
             IF pc = "open" THEN NewData ELSE data)

\* EventSource.__iter__ stops the pass at an event whose count reaches the cap
CapReached(cap, count) == cap # 0 /\ count >= cap

\* the record an iteration of the loop fills and yields, were it made anew
\* in every iteration
EventObjectFresh(obj, count) == 10 * obj + count + 1

\* the record an iteration of the loop fills and yields: `data`, made once
\* before the loop
EventObject(obj, count) == obj

Advance(res) ==
    /\ data_obj' = EventObject(IF pc = "open" THEN pass ELSE data_obj,
                               res.d.count)
    /\ events_pos' = res.c.events_pos
    /\ counter' = res.c.counter
    /\ shower_pos' = res.c.shower_pos
    /\ image_pos' = res.c.image_pos
    /\ param_pos' = res.c.param_pos
    /\ data' = res.d
    /\ error' = res.error
    /\ UNCHANGED <<file, allowed_tels, max_events, mc_headers, pass, isopen,
                   releases, closes, probe, compatible>>

\* the caller asks for the next event and gets one
NextEvent ==
    /\ Active
    /\ isopen
    /\ \E res \in {Result} :
       /\ res.status = "yield"
       /\ ~CapReached(max_events, res.d.count)
       /\ pc' = "streaming"
       /\ delivered' = delivered + 1
       /\ Advance(res)
       /\ yielded_objs' = yielded_objs \cup {data_obj'}

\* the generator yields an event past the cap: the iteration ends
NextCapped ==
    /\ Active
    /\ isopen
    /\ \E res \in {Result} :
       /\ res.status = "yield"
       /\ CapReached(max_events, res.d.count)
       /\ pc' = "stopped"
       /\ delivered' = delivered
       /\ yielded_objs' = yielded_objs
       /\ Advance(res)

\* the loop over the trigger reader ends: the iteration ends
NextExhausted ==
    /\ Active
    /\ isopen
    /\ \E res \in {Result} :
       /\ res.status = "stop"
       /\ pc' = "exhausted"
       /\ delivered' = delivered
       /\ yielded_objs' = yielded_objs
       /\ Advance(res)

\* an exception leaves the generator and reaches the caller
NextFailed ==
    /\ Active
    /\ isopen
    /\ \E res \in {Result} :
       /\ res.status = "error"
       /\ pc' = "failed"
       /\ delivered' = delivered
       /\ yielded_objs' = yielded_objs
       /\ Advance(res)

Next == NextEvent \/ NextCapped \/ NextExhausted \/ NextFailed

Spec == Init /\ [][Next]_vars

SpecPointing == InitPointing /\ [][Next]_vars

(***************************************************************************)
(* The life of the reader around its passes: close(), __exit__, requests   *)
(* on a closed file, and another pass over the same reader.                *)
(***************************************************************************)
\* a close that releases the handle whatever its state, and raises on a
\* closed one
CloseFileUnguarded(h) ==
    [isopen |-> FALSE, releases |-> h.releases + 1,
     error |-> IF h.isopen THEN "none" ELSE "ClosedFileError"]

\* self.file_.close(): tables.File.close returns at once on a closed file
CloseFile(h) ==
    [isopen |-> FALSE,
     releases |-> IF h.isopen THEN h.releases + 1 ELSE h.releases,
     error |-> "none"]

\* the body of close()
CloseCall ==
    /\ closes < MaxCloses
    /\ closes' = closes + 1
    /\ \E h \in {CloseFile([isopen |-> isopen, releases |-> releases])} :
       /\ isopen' = h.isopen
       /\ releases' = h.releases
       /\ error' = IF h.error = "none" THEN error ELSE h.error
    /\ UNCHANGED <<file, allowed_tels, max_events, mc_headers, pc, events_pos,
                   counter, shower_pos, image_pos, param_pos, data, delivered,
                   data_obj, yielded_objs, pass, probe, compatible>>

\* the caller calls close()
Close == CloseCall

\* the caller leaves the with block of the reader
Exit == CloseCall

\* The caller asks for the next event of a reader whose file is closed: the
\* body reads the file before it changes the event record, and the read
\* raises; at the end of the trigger table the reader may also just stop.
NextClosed ==
    /\ Active
    /\ ~isopen
    /\ \E outcome \in {"failed"} \cup
                       (IF pc = "streaming" /\ events_pos >= Len(file.trigger)
                        THEN {"exhausted"} ELSE {}) :
       /\ pc' = outcome
       /\ error' = IF outcome = "failed" THEN "ClosedNodeError" ELSE error
    /\ UNCHANGED <<file, allowed_tels, max_events, mc_headers, events_pos,
                   counter, shower_pos, image_pos, param_pos, data, delivered,
                   data_obj, yielded_objs, pass, isopen, releases, closes,
                   probe, compatible>>

\* a generator that is handed out again as it is
GeneratorKept(state) == state

\* self._generator(): a generator of _generate_events that has not started
GeneratorNew(state) == "open"

\* The caller starts another pass over the reader: _generator() is called
\* again; the record of the pass before stays with the caller.
Iter ==
    /\ pc # "open"
    /\ pass < MaxPasses
    /\ pass' = pass + 1
    /\ pc' = GeneratorNew(pc)
    /\ IF pc' = "open"
       THEN /\ events_pos' = 0
            /\ counter' = 0
            /\ shower_pos' = 0
            /\ image_pos' = EmptyMap
            /\ param_pos' = EmptyMap
       ELSE UNCHANGED <<events_pos, counter, shower_pos, image_pos, param_pos>>
    /\ delivered' = 0
    /\ yielded_objs' = {}
    /\ error' = "none"
    /\ UNCHANGED <<file, allowed_tels, max_events, mc_headers, data, data_obj,
                   isopen, releases, closes, probe, compatible>>

\* the reader opened on a file with images and parameters of all telescopes
InitLifecycle ==
    \E n \in 0..MaxRows :
      \E kinds \in [1..n -> RowKinds], sim \in BOOLEAN, cap \in Caps :
        Opened(MakeFile(kinds, sim, FullLayout, [r \in 1..n |-> 10 * r], 1,
                        <<10, 20, 30>>),
               {}, cap)

NextLifecycle == Next \/ NextClosed \/ Close \/ Exit \/ Iter

SpecLifecycle == InitLifecycle /\ [][NextLifecycle]_vars

\* DL1EventSource.is_compatible(file_path) is called
ProbeFile ==
    /\ compatible = "unset"
    /\ compatible' = is_compatible(probe)
    /\ UNCHANGED <<file, allowed_tels, max_events, mc_headers, pc, events_pos,
                   counter, shower_pos, image_pos, param_pos, data, delivered,
                   error, data_obj, yielded_objs, pass, isopen, releases,
                   closes, probe>>

SpecCompatible == InitCompatible /\ [][ProbeFile]_vars

(***************************************************************************)
(* Properties.  An event is in the caller's hands when pc = "streaming":   *)
(* it is the record `data`, and data.count is its sequence_index.          *)
(***************************************************************************)
Yielded == pc = "streaming"

\* every cursor-driven table holds the rows the trigger table calls for
RowConsistent(f) ==
    /\ f.simulation => Len(f.shower) = Len(f.trigger)
    /\ \A name \in DOMAIN f.images :
          Len(f.images[name]) = Len(RowsOfTel(f.tel_trigger, TelOfName(name)))
    /\ \A name \in DOMAIN f.parameters :
          Len(f.parameters[name])
              = Len(RowsOfTel(f.tel_trigger, TelOfName(name)))

\* every observation of a simulation file has its run header in the registry
HeadersComplete(f) ==
    f.simulation =>
        /\ f.has_run
        /\ \A r \in 1..Len(f.trigger) :
            f.trigger[r].obs_id \in DOMAIN ParseMcHeaders(f)

\* C1: the event yielded with sequence_index k carries the trigger and the
\* (obs_id, event_id) index of row k of the array-trigger table (row k + 1
\* counting from 1), so that no row is skipped.
C1_EventCarriesRowOfItsIndex ==
    Yielded =>
        /\ data.count + 1 <= Len(file.trigger)
        /\ LET row == file.trigger[data.count + 1]
           IN  /\ data.index = [obs_id |-> row.obs_id, event_id |-> row.event_id]
               /\ data.trigger.time = row.time
               /\ data.trigger.tels_with_trigger
                      = DecodeTels(row.tels_with_trigger)

\* C2: sequence_index counts the delivered events from 0 without gaps, and a
\* pass that ran to its end has delivered length events without a cap and
\* min(length, cap) events with one.
C2_CountEqualsLength ==
    /\ Yielded => data.count = delivered - 1
    /\ pc \in {"exhausted", "stopped"} =>
          delivered = IF max_events = 0 THEN Length(file)
                      ELSE IF Length(file) < max_events THEN Length(file)
                      ELSE max_events

\* C3: on a row-consistent file of any number of rows the pass never ends in
\* a fatal error: the end of the trigger table is a normal end of sequence.
C3_ExhaustionIsNotAFailure ==
    RowConsistent(file) /\ HeadersComplete(file) => pc # "failed"

Abs(x) == IF x < 0 THEN 0 - x ELSE x

\* the 1-based position of the row of times nearest to t, the lowest on a tie
Nearest(times, t) ==
    CHOOSE i \in 1..Len(times) :
        /\ \A j \in 1..Len(times) : Abs(times[i] - t) <= Abs(times[j] - t)
        /\ \A j \in 1..(i - 1) : Abs(times[j] - t) > Abs(times[i] - t)

\* C4: the array pointing of every event is the row of the array monitoring
\* table whose timestamp is nearest in absolute difference to the trigger
\* time, the lowest row on a tie (timestamps 10, 20, 30 and time 21: row 20).
C4_ArrayPointingIsNearest ==
    Yielded =>
        LET row == file.pointing[
                       Nearest([i \in 1..Len(file.pointing) |->
                                   file.pointing[i].time],
                               data.trigger.time)]
        IN  /\ data.pointing.array_azimuth  = row.array_azimuth
            /\ data.pointing.array_altitude = row.array_altitude
            /\ data.pointing.array_ra       = row.array_ra
            /\ data.pointing.array_dec      = row.array_dec

\* C5: for every telescope with a recorded trigger time, the telescope
\* pointing is the row of that telescope's own monitoring table nearest in
\* absolute difference to the telescope's trigger time, the lowest on a tie.
C5_TelPointingIsNearest ==
    Yielded =>
        \A tel \in DOMAIN data.trigger.tel :
            /\ tel \in DOMAIN data.pointing.tel
            /\ LET table == file.tel_pointing[TelName(tel)]
                   row == table[Nearest([i \in 1..Len(table) |->
                                            table[i].telescopetrigger_time],
                                        data.trigger.tel[tel].time)]
               IN  data.pointing.tel[tel]
                       = [azimuth |-> row.azimuth, altitude |-> row.altitude]

\* C6: in a simulation file with one true-shower row per trigger row, the
\* simulated shower of every event is the shower row at the row position of
\* the trigger row the event carries.
C6_ShowerRowMatchesTriggerRow ==
    (Yielded /\ is_simulation(file) /\ Len(file.shower) = Len(file.trigger)) =>
        \E r \in 1..Len(file.trigger) :
            /\ data.index = ReadTrigger(file.trigger[r])[2]
            /\ data.mc = ReadShower(file.shower[r])

\* the datalevels of the file for which telescope tel has no table
MissingTable(f, tel) ==
    \/ "DL1_IMAGES" \in datalevels(f) /\ TelName(tel) \notin DOMAIN f.images
    \/ "DL1_PARAMETERS" \in datalevels(f)
           /\ TelName(tel) \notin DOMAIN f.parameters

\* C7: a triggered, allowed telescope without a table in the image or the
\* parameter group has no entry in data.dl1.tel, nothing fails, and the other
\* telescopes of the event have their entries.
C7_MissingTelescopeHasNoEntry ==
    Yielded =>
        \A tel \in DOMAIN data.trigger.tel :
            IF MissingTable(file, tel)
            THEN tel \notin DOMAIN data.dl1.tel
            ELSE tel \in DOMAIN data.dl1.tel

\* the telescopes whose cursor of a table kind has been advanced
AdvancedTels(pos) == {TelOfName(name) : name \in {n \in DOMAIN pos : pos[n] > 0}}

\* the telescopes with a row for the event in the per-telescope trigger table
TelsWithRow(f, index) ==
    {row.tel_id : row \in {x \in Range(f.tel_trigger) :
                               /\ x.obs_id = index.obs_id
                               /\ x.event_id = index.event_id}}

\* C8: with a non-empty allow-list, the keys of data.dl1.tel, of
\* data.pointing.tel and of data.trigger.tel are telescopes of the allow-list,
\* also when excluded telescopes are triggered and have tables, and no cursor
\* of an excluded telescope is advanced.
C8_OnlyAllowedTelescopes ==
    allowed_tels # {} =>
        /\ DOMAIN data.dl1.tel \subseteq allowed_tels
        /\ DOMAIN data.pointing.tel \subseteq allowed_tels
        /\ DOMAIN data.trigger.tel \subseteq allowed_tels
        /\ AdvancedTels(image_pos) \subseteq allowed_tels
        /\ AdvancedTels(param_pos) \subseteq allowed_tels

\* C8 witness: a second event is out under the allow-list {1}; telescope 2 is
\* in its bitmap, has a trigger-time row and tables, and telescope 1 is there.
C8_Witness ==
    /\ Yielded
    /\ delivered = 2
    /\ allowed_tels = {1}
    /\ 2 \in data.trigger.tels_with_trigger
    /\ 2 \in TelsWithRow(file, data.index)
    /\ TelName(2) \in DOMAIN image_pos
    /\ TelName(2) \in DOMAIN param_pos
    /\ DOMAIN data.dl1.tel = {1}
    /\ DOMAIN data.pointing.tel = {1}
    /\ DOMAIN data.trigger.tel = {1}

\* C9 as stated: every key of data.dl1.tel is in the set decoded from the
\* bitmap, whatever the per-telescope trigger table holds.
C9_KeysAreTriggered ==
    Yielded => DOMAIN data.dl1.tel \subseteq data.trigger.tels_with_trigger

\* C9 as amended: every key of data.dl1.tel is a telescope with a row for the
\* event's (obs_id, event_id) in the per-telescope trigger table; it is in the
\* set decoded from the bitmap when those rows name only telescopes of the
\* bitmap.
C9_KeysHaveTriggerRow ==
    Yielded =>
        /\ DOMAIN data.dl1.tel \subseteq TelsWithRow(file, data.index)
        /\ TelsWithRow(file, data.index) \subseteq data.trigger.tels_with_trigger
              => DOMAIN data.dl1.tel \subseteq data.trigger.tels_with_trigger

\* C9 witness: an event whose bitmap holds all its trigger-table telescopes
\* and has entries in data.dl1.tel, in a file that also has a row naming a
\* telescope its bitmap does not hold.
C9_Witness ==
    /\ Yielded
    /\ data.dl1.tel # EmptyMap
    /\ DOMAIN data.dl1.tel \subseteq data.trigger.tels_with_trigger
    /\ \E r \in 1..Len(file.trigger) :
          \E row \in Range(file.tel_trigger) :
              /\ row.event_id = file.trigger[r].event_id
              /\ row.tel_id \notin DecodeTels(file.trigger[r].tels_with_trigger)

\* C10: in a simulation file the run header of every event is the registry
\* entry of the event's own obs_id, also in a merged file.
C10_HeaderOfOwnObservation ==
    (Yielded /\ is_simulation(file)) =>
        /\ data.index.obs_id \in DOMAIN mc_headers
        /\ data.mcheader = mc_headers[data.index.obs_id]

\* C10 witness: the second event of a merged simulation file carries another
\* obs_id than the first one did, and the registry has both.
C10_Witness ==
    /\ Yielded
    /\ is_simulation(file)
    /\ delivered = 2
    /\ Cardinality(DOMAIN mc_headers) = 2
    /\ data.index.obs_id # file.trigger[2].obs_id
    /\ data.mcheader = mc_headers[data.index.obs_id]
    /\ data.mcheader # mc_headers[file.trigger[2].obs_id]

\* the request under way reads trigger row r for its event: the row is taken
\* from the trigger cursor and its index is written to the event record
ReadsRow(r) ==
    /\ Cursors.events_pos < r
    /\ r <= events_pos'
    /\ data'.index = [obs_id   |-> file.trigger[r].obs_id,
                      event_id |-> file.trigger[r].event_id]

\* C11: on a simulation file, a request that reads for its event a trigger row
\* whose obs_id is not a key of the registry (the shower cursor still having
\* a row) fails with a KeyError and hands no event to the caller: the row is
\* not skipped and the pass does not go on.
C11_UnknownObsIdIsFatal ==
    [][\A r \in 1..Len(file.trigger) :
          ( /\ Active
            /\ is_simulation(file)
            /\ ReadsRow(r)
            /\ Cursors.shower_pos < Len(file.shower)
            /\ file.trigger[r].obs_id \notin DOMAIN mc_headers )
          => /\ pc' = "failed"
             /\ error' = "KeyError"
             /\ delivered' = delivered]_vars

\* a pass that has delivered an event fails at a row of an unknown observation
C11_Witness ==
    /\ pc = "failed"
    /\ error = "KeyError"
    /\ delivered >= 1
    /\ data.index.obs_id \notin DOMAIN mc_headers

\* a cursor the event of trigger row r needs has no row left
CursorExhaustedFor(r) ==
    \/ is_simulation(file) /\ Cursors.shower_pos >= Len(file.shower)
    \/ \E row \in Range(file.tel_trigger) :
          LET name == TelName(row.tel_id)
          IN  /\ row.obs_id = file.trigger[r].obs_id
              /\ row.event_id = file.trigger[r].event_id
              /\ ~(allowed_tels # {} /\ row.tel_id \notin allowed_tels)
              /\ name \in DOMAIN Cursors.image_pos
              /\ name \in DOMAIN Cursors.param_pos
              /\ \/ Cursors.image_pos[name] >= Len(file.images[name])
                 \/ Cursors.param_pos[name] >= Len(file.parameters[name])

\* C12: a request that reads a trigger row for its event while the shower
\* cursor, or the image or parameter cursor of a telescope of that event, has
\* no row left ends in a fatal error that reaches the caller: the pass does
\* not end as if exhausted and no event is handed out for the row.
C12_ExhaustedCursorIsFatal ==
    [][\A r \in 1..Len(file.trigger) :
          (Active /\ ReadsRow(r) /\ CursorExhaustedFor(r))
          => /\ pc' = "failed"
             /\ error' # "none"
             /\ delivered' = delivered]_vars

\* a pass that has delivered an event fails at an exhausted cursor after it
\* has read the trigger row of its next event
C12_Witness ==
    /\ pc = "failed"
    /\ error = "RuntimeError"
    /\ delivered >= 1
    /\ data.count = delivered
    /\ data.index.event_id = file.trigger[events_pos].event_id
    /\ \/ is_simulation(file) /\ Len(file.shower) < delivered + 1
       \/ \E name \in DOMAIN file.images : Len(file.images[name]) < delivered + 1

\* the file has the signature and both root attributes with their values
AllMatch(p) ==
    /\ p.magic = HDF5Signature
    /\ "CTA PRODUCT DESCRIPTION" \in DOMAIN p.attrs
    /\ "CTA PRODUCT DATA MODEL VERSION" \in DOMAIN p.attrs
    /\ p.attrs["CTA PRODUCT DESCRIPTION"] = "DL1 Data Product"
    /\ p.attrs["CTA PRODUCT DATA MODEL VERSION"] = "v1.0.0"

\* C13: is_compatible returns true exactly when the first 8 bytes are the HDF5
\* signature and the root attributes hold the product description and the
\* data model version with their known values; on every other file, a file
\* with the description and without the version key among them, it returns
\* false and raises nothing.
C13_CompatibleIffAllMatch ==
    compatible # "unset" =>
        compatible = IF AllMatch(probe) THEN "True" ELSE "False"

\* C14: close() is idempotent in every state of the reader: a call of close()
\* or __exit__, before any event, between events, after the end of a pass or
\* after a failure, raises nothing and leaves the reader where it was; the
\* first call releases the file handle and a later call changes nothing, so
\* that the handle is released exactly once.
C14_CloseIsIdempotent ==
    [][closes' = closes + 1 =>
          /\ ~isopen'
          /\ releases' = 1
          /\ error' = error
          /\ UNCHANGED <<pc, events_pos, counter, shower_pos, image_pos,
                         param_pos, data, delivered, mc_headers>>
          /\ closes >= 1 => UNCHANGED <<isopen, releases>>]_vars

\* close() has been called twice on a reader in the middle of a pass
C14_Witness ==
    /\ closes = 2
    /\ pc = "streaming"
    /\ releases = 1

\* C15: the image and the parameter category are skipped independently: in a
\* file with both datalevels, a telescope of the event that passes the
\* allow-list and has a parameter table and no image table gets its parameter
\* cursor advanced and its seven parameter records filled; only its image
\* fields stay unset.
C15_ParametersWithoutImageTable ==
    Yielded =>
        \A tel \in DOMAIN data.trigger.tel :
            ( /\ datalevels(file) = {"DL1_IMAGES", "DL1_PARAMETERS"}
              /\ ~(allowed_tels # {} /\ tel \notin allowed_tels)
              /\ TelName(tel) \notin DOMAIN file.images
              /\ TelName(tel) \in DOMAIN file.parameters )
            => /\ tel \in DOMAIN data.dl1.tel
               /\ param_pos[TelName(tel)] >= 1
               /\ \A field \in {"hillas", "timing", "leakage", "concentration",
                                 "morphology", "intensity_statistics",
                                 "peak_time_statistics"} :
                      data.dl1.tel[tel].parameters[field] # None
               /\ data.dl1.tel[tel].image = None

\* C16: on a file whose image and parameter tables hold one row per
\* telescope trigger row, in the order of the trigger table, the image and
\* the parameters attached to a telescope in a yielded event are those of the
\* row of that same event: the row with the obs_id and event_id of the
\* event's index and the telescope's id.
C16_RowsBelongToTheEvent ==
    Yielded /\ RowConsistent(file) =>
        \A tel \in DOMAIN data.dl1.tel :
            LET own == [obs_id |-> data.index.obs_id,
                        event_id |-> data.index.event_id, tel_id |-> tel]
                dl1 == data.dl1.tel[tel]
            IN  /\ dl1.image # None =>
                      /\ dl1.image = ImageRow(own).image
                      /\ dl1.peak_time = ImageRow(own).peak_time
                      /\ dl1.image_mask = ImageRow(own).image_mask
                /\ dl1.parameters.hillas # None =>
                      dl1.parameters = [k \in DOMAIN dl1.parameters |->
                          CASE k = "intensity_statistics" -> ParamRow(own).intensity
                            [] k = "peak_time_statistics" -> ParamRow(own).peak_time
                            [] OTHER -> ParamRow(own)[k]]

\* C17: all the events of one pass are one and the same record, refilled in
\* place: every reference the caller kept to an event of the pass is a
\* reference to the record the generator holds, so that it shows the
\* sequence_index, trigger, index and per-telescope maps of the latest event.
C17_OneRecordRefilled ==
    /\ Cardinality(yielded_objs) <= 1
    /\ Yielded => /\ yielded_objs = {data_obj}
                  /\ data.count = delivered - 1

\* the caller has been given a second event
C17_Witness ==
    /\ Yielded
    /\ delivered >= 2
    /\ yielded_objs = {data_obj}

\* the telescopes whose data the event of the given index may hold
Entitled(f, allowed, index) ==
    {t \in TelsWithRow(f, index) : allowed = {} \/ t \in allowed}

\* C18: no per-telescope data passes from one event to the next: the keys of
\* data.trigger.tel, data.pointing.tel and data.dl1.tel of a yielded event
\* are telescopes with a trigger-time row for that event, and the trigger
\* times are those of the event's own rows; a telescope that had entries in
\* an earlier event and has no trigger-time row in this one has no entry.
C18_NoLeakBetweenEvents ==
    Yielded =>
        LET own == Entitled(file, allowed_tels, data.index)
        IN  /\ DOMAIN data.trigger.tel = own
            /\ DOMAIN data.pointing.tel = own
            /\ DOMAIN data.dl1.tel = own
            /\ \A t \in own :
                  \E row \in Range(file.tel_trigger) :
                      /\ row.obs_id = data.index.obs_id
                      /\ row.event_id = data.index.event_id
                      /\ row.tel_id = t
                      /\ data.trigger.tel[t].time = row.telescopetrigger_time

\* a telescope whose image cursor was read for an earlier event of the pass
\* has no trigger-time row in the yielded event, and no entry
C18_Witness ==
    /\ Yielded
    /\ \E t \in Tels :
          /\ TelName(t) \in DOMAIN image_pos
          /\ image_pos[TelName(t)] >= 1
          /\ t \notin TelsWithRow(file, data.index)
          /\ t \notin DOMAIN data.trigger.tel \cup DOMAIN data.pointing.tel
                          \cup DOMAIN data.dl1.tel

RECURSIVE Replay(_)
\* what request k + 1 of a pass that starts at the first rows of the file
\* comes to
Replay(k) ==
    IF k = 0
    THEN LoopBody(file, allowed_tels, mc_headers, NewCursors(file), NewData)
    ELSE LET before == Replay(k - 1)
         IN  LoopBody(file, allowed_tels, mc_headers, before.c, before.d)

\* C19: the sequence cannot be started again on the same open reader: a pass
\* begun after another pass was exhausted or partly consumed does not hand
\* out the first event of the file again.
C19_NotRestartable ==
    pass >= 2 => ~(Yielded /\ delivered = 1 /\ data = Replay(0).d)

\* C19, amended: every pass over an open reader starts at the first rows of
\* the file with new cursors: the events of a later pass are, one by one,
\* the events a first pass yields, and the pass ends where a first pass ends.
C19_EveryPassStartsAtTheFirstRow ==
    pass >= 2 =>
        /\ Yielded => /\ delivered >= 1
                      /\ Replay(delivered - 1).status = "yield"
                      /\ data = Replay(delivered - 1).d
        /\ isopen /\ pc = "exhausted" => Replay(delivered).status = "stop"

\* a second pass, begun after the first one was exhausted or left, has
\* handed out its second event
C19_Witness ==
    /\ pass = 2
    /\ Yielded
    /\ delivered = 2
    /\ data = Replay(1).d

\* the telescopes set in the bitmap of the event in d that have no
\* trigger-time row for it
GapTels(f, d) == d.trigger.tels_with_trigger \ TelsWithRow(f, d.index)

\* C20: a telescope set in the bitmap of an event and without a trigger-time
\* row for it is a gap: the request that yields the event stores no trigger
\* time, no pointing and no dl1 entry for it and advances neither its image
\* nor its parameter cursor.
C20_GapTelescopeIsLeftOut ==
    [][(pc' = "streaming" /\ delivered' = delivered + 1) =>
          \A t \in GapTels(file, data') :
              /\ t \notin DOMAIN data'.trigger.tel
              /\ t \notin DOMAIN data'.pointing.tel
              /\ t \notin DOMAIN data'.dl1.tel
              /\ TelName(t) \in DOMAIN image_pos' =>
                     image_pos'[TelName(t)] = Cursors.image_pos[TelName(t)]
              /\ TelName(t) \in DOMAIN param_pos' =>
                     param_pos'[TelName(t)] = Cursors.param_pos[TelName(t)]]_vars

\* a yielded event with a gap telescope that has an image table and a
\* parameter table, beside a telescope that has its entries
C20_Witness ==
    /\ Yielded
    /\ DOMAIN data.dl1.tel # {}
    /\ \E t \in GapTels(file, data) :
          /\ TelName(t) \in DOMAIN image_pos
          /\ TelName(t) \in DOMAIN param_pos
          /\ t \notin DOMAIN data.trigger.tel \cup DOMAIN data.pointing.tel
                          \cup DOMAIN data.dl1.tel

\* the registry maps the obs_id of every row of the run table, and nothing
\* else, to the header of a row with that obs_id
RegistryOfRunTable(f, headers) ==
    /\ DOMAIN headers = {f.run[i].obs_id : i \in 1..Len(f.run)}
    /\ \A k \in DOMAIN headers :
          \E i \in 1..Len(f.run) :
              /\ f.run[i].obs_id = k
              /\ headers[k].corsika_version = f.run[i].corsika_version
              /\ headers[k].num_showers = f.run[i].num_showers

\* C21: after open the registry has one key per obs_id of the run table and
\* each key maps to the header of its own row, also when the table has
\* several rows; a file whose run table is missing or empty opens without
\* an error and has an empty registry.
C21_RegistryHoldsEveryRunRow ==
    /\ error # "NoSuchNodeError"
    /\ RegistryOfRunTable(file, mc_headers)
    /\ (~file.has_run \/ Len(file.run) = 0) => mc_headers = EmptyMap

\* the trigger row whose index the event record holds
RowOfEvent(f, d) ==
    CHOOSE r \in 1..Len(f.trigger) :
        /\ f.trigger[r].obs_id = d.index.obs_id
        /\ f.trigger[r].event_id = d.index.event_id

\* C22: trigger.tels_with_trigger of a yielded event is the set of p + 1 for
\* the bits p set in the bitmap of the event's trigger row: bit 0 stands for
\* telescope 1, bit NTel - 1 for telescope NTel, a bitmap of zeros for the
\* empty set; the bitmap is decoded once, the ids are not decoded again.
C22_BitmapDecodedOnce ==
    Yielded =>
        LET bitmap == file.trigger[RowOfEvent(file, data)].tels_with_trigger
        IN  /\ DOMAIN bitmap = 0..(NTel - 1)
            /\ data.trigger.tels_with_trigger
                   = {t \in 1..NTel : bitmap[t - 1]}

\* the second event of a pass, from a row whose bitmap has bit 0 clear and
\* its last bit set
C22_Witness ==
    /\ Yielded
    /\ delivered = 2
    /\ LET bitmap == file.trigger[RowOfEvent(file, data)].tels_with_trigger
       IN  ~bitmap[0] /\ bitmap[NTel - 1]
    /\ data.trigger.tels_with_trigger = Tels \ {1}

====
